---- MODULE Spec2Model ----
(***************************************************************************)
(* Model of the tic-tac-toe engine of src/tiktaktoe.py: the TikTakToe game *)
(* object (player_turn, is_ongoing, result), the fields_taken lists of its *)
(* two players, and the calls that mutate them: Player.take_field,         *)
(* TikTakToe.occupy_field and TikTakToe.reset.                             *)
(*                                                                         *)
(* A fields_taken list is represented by its bag of elements: the code     *)
(* only appends to it, tests membership, takes its length and iterates it  *)
(* to fill the game matrix, so the order of a list is never observed.      *)
(* err is the exception the most recent call raised ("none" if it          *)
(* returned normally).  qtable is the dict a QPlayer is constructed with;  *)
(* both seats may be QPlayers sharing it.                                  *)
(***************************************************************************)
EXTENDS Integers, FiniteSets, Sequences, Bags, TLC

VARIABLES fields_taken, player_turn, is_ongoing, result, err, qtable

vars == <<fields_taken, player_turn, is_ongoing, result, err, qtable>>

\* Largest cell value a caller submits; 0..8 are the cells of the board.
MaxField == 9

\* PlayerNr.X / PlayerNr.O
X == 1
O == 0 - 1

Players == {"player_x", "player_o"}

\* TikTakToe.__init__ binds player_x to PlayerNr.X and player_o to PlayerNr.O.
player_nr(player) == IF player = "player_x" THEN X ELSE O

\* range(0, 9)
Cells == 0..8

\* The values callers pass as field.
Fields == 0..MaxField

win_states ==
    << <<0, 1, 2>>, <<3, 4, 5>>, <<6, 7, 8>>,
       <<0, 3, 6>>, <<1, 4, 7>>, <<2, 5, 8>>,
       <<0, 4, 8>>, <<2, 4, 6>> >>

\* list.append(field)
Append1(taken, field) == taken (+) SetToBag({field})

\* field in player.fields_taken
InList(field, taken) == BagIn(field, taken)

\* len(player.fields_taken)
Len1(taken) == BagCardinality(taken)

check_for_win(taken) ==
    \E i \in 1..8 :
        /\ InList(win_states[i][1], taken)
        /\ InList(win_states[i][2], taken)
        /\ InList(win_states[i][3], taken)

check_for_draw_off_by_one(ft) ==
    Len1(ft["player_x"]) + Len1(ft["player_o"]) > 9

check_for_draw(ft) ==
    Len1(ft["player_x"]) + Len1(ft["player_o"]) >= 9

is_occupied(field) ==
    InList(field, fields_taken["player_o"]) \/ InList(field, fields_taken["player_x"])

next_turn_stuck(turn) == turn

\* "change turn"
next_turn(turn) == IF turn = X THEN O ELSE X

occupy_error_occupied_first(nr, field) ==
    IF is_occupied(field) THEN "occupied"
    ELSE IF nr # player_turn THEN "turn"
    ELSE "none"

occupy_error_no_turn_check(nr, field) ==
    IF is_occupied(field) THEN "occupied" ELSE "none"

\* The two checks that open occupy_field, in the order the code makes them.
occupy_error(nr, field) ==
    IF nr # player_turn THEN "turn"
    ELSE IF is_occupied(field) THEN "occupied"
    ELSE "none"

win_result(player) ==
    IF player_nr(player) = X THEN "x_win"
    ELSE IF player_nr(player) = O THEN "o_win"
    ELSE "error"

outcome_draw_first(player, ft) ==
    IF check_for_draw(ft) THEN <<"draw", FALSE>>
    ELSE IF check_for_win(ft[player]) THEN <<win_result(player), FALSE>>
    ELSE <<result, is_ongoing>>

\* The termination check that closes occupy_field: <<result, is_ongoing>>
\* after player has received the field.
outcome(player, ft) ==
    IF check_for_win(ft[player]) THEN <<win_result(player), FALSE>>
    ELSE IF check_for_draw(ft) THEN <<"draw", FALSE>>
    ELSE <<result, is_ongoing>>

\* An exception leaves the game as it was.
RaiseGame(e) ==
    /\ err' = e
    /\ UNCHANGED <<fields_taken, player_turn, is_ongoing, result>>

Raise(e) == RaiseGame(e) /\ UNCHANGED qtable

\* What TikTakToe.occupy_field(player, player_nr, field) does to the game.
occupy_game(player, nr, field) ==
    LET e == occupy_error(nr, field) IN
    IF e # "none" THEN RaiseGame(e)
    ELSE LET ft == [fields_taken EXCEPT ![player] = Append1(@, field)]
             out == outcome(player, ft)
         IN  /\ player_turn' = next_turn(player_turn)
             /\ fields_taken' = ft
             /\ result' = out[1]
             /\ is_ongoing' = out[2]
             /\ err' = "none"

\* TikTakToe.occupy_field(player, player_nr, field)
occupy_field(player, nr, field) ==
    occupy_game(player, nr, field) /\ UNCHANGED qtable

\* Player.take_field(game, field)
take_field(player, field) ==
    IF field \notin Cells THEN Raise("range")
    ELSE occupy_field(player, player_nr(player), field)

\* TikTakToe.reset()
reset ==
    /\ fields_taken' = [p \in Players |-> EmptyBag]
    /\ player_turn' = X
    /\ is_ongoing' = TRUE
    /\ err' = "none"
    /\ UNCHANGED <<result, qtable>>

\* State after TikTakToe(player_x, player_o)
Init ==
    /\ fields_taken = [p \in Players |-> EmptyBag]
    /\ player_turn = X
    /\ is_ongoing = TRUE
    /\ result = "None"
    /\ err = "none"
    /\ qtable = <<>>

(***************************************************************************)
(* The state encoders.  Each returns [exc, val]: the exception it raises   *)
(* ("none" if it returns) and the value it returns.                        *)
(***************************************************************************)
Returns(v) == [exc |-> "none", val |-> v]

Raises(e) == [exc |-> e, val |-> <<>>]

\* game_matrix[field] = ... on a list of 9: Python accepts -9..8 and counts
\* a negative index from the end.
index_ok(field) == field \in (0 - 9)..8

list_index(field) == IF field < 0 THEN field + 9 ELSE field

Written(taken, i) == \E f \in BagToSet(taken) : list_index(f) = i

\* TikTakToe.get_game_matrix(): the X loop writes first, the O loop after it.
get_game_matrix(ft) ==
    IF \E p \in Players : \E f \in BagToSet(ft[p]) : ~index_ok(f)
        THEN Raises("IndexError")
        ELSE Returns([i \in 1..9 |->
                        IF Written(ft["player_o"], i - 1) THEN O
                        ELSE IF Written(ft["player_x"], i - 1) THEN X
                        ELSE 0])

\* The characters one entry of the matrix adds to qtable_entry.
entry_chars(field, pov) ==
    (IF field = 0 THEN <<"-">> ELSE <<>>)
        \o (IF field = pov THEN <<"x">>
            ELSE IF field # 0 /\ field # pov THEN <<"o">>
            ELSE <<>>)

RECURSIVE entry_from(_, _, _)
entry_from(matrix, pov, i) ==
    IF i > Len(matrix) THEN <<>>
    ELSE entry_chars(matrix[i], pov) \o entry_from(matrix, pov, i + 1)

\* TikTakToe.get_qtable_entry(pov)
get_qtable_entry(ft, pov) ==
    LET m == get_game_matrix(ft)
    IN  IF m.exc # "none" THEN m ELSE Returns(entry_from(m.val, pov, 1))

mapping(char) ==
    IF char = "x" THEN <<1, 0, 0>>
    ELSE IF char = "-" THEN <<0, 1, 0>>
    ELSE <<0, 0, 1>>

\* TikTakToe.get_nn_input(pov)
get_nn_input(ft, pov) ==
    LET e == get_qtable_entry(ft, pov)
    IN  IF e.exc # "none" THEN e
        ELSE IF Len(e.val) # 9 THEN Raises("ValueError")
        ELSE Returns([i \in 1..9 |-> mapping(e.val[i])])

\* TikTakToe.get_available_fields()
get_available_fields == SelectSeq(<<0, 1, 2, 3, 4, 5, 6, 7, 8>>,
                                  LAMBDA i : ~is_occupied(i))

\* A call of an encoder: it reads the lists and returns or raises.
Query(r) ==
    /\ err' = r.exc
    /\ UNCHANGED <<fields_taken, player_turn, is_ongoing, result, qtable>>

GetGameMatrix == Query(get_game_matrix(fields_taken))

GetQtableEntry == \E pov \in {X, O} : Query(get_qtable_entry(fields_taken, pov))

GetNNInput == \E pov \in {X, O} : Query(get_nn_input(fields_taken, pov))

TakeField == \E player \in Players, field \in Fields : take_field(player, field)

\* A caller that invokes occupy_field itself, as the take_field variants do,
\* with a player of the game and that player's number.
OccupyField ==
    \E player \in Players, field \in Fields :
        occupy_field(player, player_nr(player), field)

Reset == reset

(***************************************************************************)
(* The player variants.                                                    *)
(***************************************************************************)
\* Largest number of entries the qtable is let grow to.
MaxTable == 2

\* RandomPlayer.take_field: the values the "while field in taken_fields"
\* loop can end with.  The for loops leave field at a taken cell whenever a
\* cell is taken, so every run goes through the loop's test.
random_fields == {field \in 0..8 : ~is_occupied(field)}

\* RandomPlayer.take_field(game).  With no free cell the loop never ends
\* and the call does not return: no step.
random_take_field(player) ==
    \E field \in random_fields :
        IF field \notin Cells THEN Raise("range")
        ELSE occupy_field(player, player_nr(player), field)

\* float('-inf')
NegInf == 0 - 1000

\* What self.model(input) may return: the scores of the 9 cells.
ModelOutputs == {[c \in 0..8 |-> IF c = hot THEN 1 ELSE 0] : hot \in 0..8}

SeqToSet(seq) == {seq[i] : i \in 1..Len(seq)}

\* NNPlayer.get_best_action: argmax of the masked output, the first index
\* among equal maxima.
get_best_action(model_output, available_fields) ==
    LET masked(c) == IF \E i \in 1..Len(available_fields) : available_fields[i] = c
                       THEN model_output[c] ELSE NegInf
    IN  CHOOSE c \in 0..8 :
            \A d \in 0..8 :
                \/ masked(d) < masked(c)
                \/ masked(d) = masked(c) /\ c <= d

\* NNPlayer.take_field(game, moves_made, epsilon); explore is the outcome
\* of "epsilon > random.random()".  (The singleton quantifiers name a value
\* that is computed once.)
nn_take_field(player, explore) ==
    \E input_exc \in {get_nn_input(fields_taken, player_nr(player)).exc},
       available_fields \in {get_available_fields} :
        IF input_exc # "none" THEN Raise(input_exc)
        ELSE IF explore
               THEN IF available_fields = <<>> THEN Raise("IndexError")
                    ELSE \E field \in SeqToSet(available_fields) :
                            occupy_field(player, player_nr(player), field)
               ELSE \E model_output \in ModelOutputs :
                       occupy_field(player, player_nr(player),
                           get_best_action(model_output, available_fields))

new_entry_all_cells(available_fields) ==
    [i \in 1..9 |-> <<i - 1, 0>>]

\* [(field, 0.0) for field in available_fields]
new_entry(available_fields) ==
    [i \in 1..Len(available_fields) |-> <<available_fields[i], 0>>]

\* The fields QPlayer.take_field chooses among in a non-empty entry.
q_fields(state_values, explore) ==
    IF explore
      THEN {state_values[i][1] : i \in 1..Len(state_values)}
      ELSE {state_values[i][1] :
              i \in {j \in 1..Len(state_values) :
                       \A k \in 1..Len(state_values) :
                           state_values[k][2] <= state_values[j][2]}}

\* QPlayer.take_field(game, game_log, change_epsilon); explore is the
\* outcome of "random.random() < self.epsilon and change_epsilon".
q_take_field(player, explore) ==
    \E key \in {get_qtable_entry(fields_taken, player_nr(player))},
       available_fields \in {get_available_fields} :
        IF key.exc # "none" THEN Raise(key.exc)
        ELSE \E seen \in {key.val \in DOMAIN qtable} :
             \E table \in {IF seen THEN qtable
                           ELSE (key.val :> new_entry(available_fields)) @@ qtable} :
             \E state_values \in {table[key.val]} :
                /\ qtable' = table
                /\ IF state_values = <<>>
                     THEN RaiseGame(IF ~seen \/ explore THEN "IndexError"
                                                        ELSE "ValueError")
                     ELSE \E field \in q_fields(state_values, explore) :
                             occupy_game(player, player_nr(player), field)

RandomTakeField == \E player \in Players : random_take_field(player)

NNTakeField == \E player \in Players, explore \in BOOLEAN : nn_take_field(player, explore)

\* qtable is kept to MaxTable entries: a QPlayer is asked to move when its
\* key is known or there is room for it.
QTakeField ==
    \E player \in Players, explore \in BOOLEAN :
        /\ \E key \in {get_qtable_entry(fields_taken, player_nr(player))} :
               \/ key.exc # "none"
               \/ key.val \in DOMAIN qtable
               \/ Cardinality(DOMAIN qtable) < MaxTable
        /\ q_take_field(player, explore)

\* The game driven by the engine's callers and by random and model-driven
\* players, with the encoders called at any time.
NextPlay ==
    \/ TakeField \/ OccupyField \/ Reset
    \/ GetGameMatrix \/ GetQtableEntry \/ GetNNInput
    \/ RandomTakeField \/ NNTakeField

SpecPlay == Init /\ [][NextPlay]_vars

\* qtable is the dict the QPlayer was constructed with, and its owner
\* rewrites the values stored in it between moves.  One value is raised
\* to 1 while all values are 0.
UpdateValue ==
    /\ \A key \in DOMAIN qtable :
          \A i \in 1..Len(qtable[key]) : qtable[key][i][2] = 0
    /\ \E key \in DOMAIN qtable :
          \E i \in 1..Len(qtable[key]) :
             qtable' = [qtable EXCEPT ![key][i][2] = 1]
    /\ UNCHANGED <<fields_taken, player_turn, is_ongoing, result, err>>

\* Games played by table-driven players on both seats, sharing one table.
NextQ == QTakeField \/ Reset \/ UpdateValue

SpecQ == Init /\ [][NextQ]_vars

\* occupy_field called directly with any player object and any player
\* number: the two are separate parameters and the code never compares them.
OccupyFieldAny ==
    \E player \in Players, nr \in {X, O}, field \in Cells :
        occupy_field(player, nr, field)

NextAny == OccupyFieldAny \/ TakeField \/ Reset

SpecAny == Init /\ [][NextAny]_vars

Next == TakeField \/ OccupyField \/ Reset

Spec == Init /\ [][Next]_vars

(***************************************************************************)
(* Vocabulary of the properties, stated independently of the operators     *)
(* above.                                                                  *)
(***************************************************************************)
GameState == <<fields_taken, player_turn, is_ongoing, result>>

WinLines ==
    { {0, 1, 2}, {3, 4, 5}, {6, 7, 8},
      {0, 3, 6}, {1, 4, 7}, {2, 5, 8},
      {0, 4, 8}, {2, 4, 6} }

HasLine(taken) == \E line \in WinLines : \A c \in line : BagIn(c, taken)

WinOf(player) == IF player = "player_x" THEN "x_win" ELSE "o_win"

Other(turn) == IF turn = 1 THEN 0 - 1 ELSE 1

Holds(taken, c) == BagIn(c, taken)

ClaimedBy(ft, player) == {c \in Fields : Holds(ft[player], c)}

AllCellsClaimed(ft) ==
    \A c \in 0..8 : Holds(ft["player_x"], c) \/ Holds(ft["player_o"], c)

Entries == {"take_field", "occupy_field"}

\* The call of one entry point by a player of the game.
Call(entry, player, field) ==
    IF entry = "take_field"
        THEN take_field(player, field)
        ELSE occupy_field(player, player_nr(player), field)

AnyOccupy == TakeField \/ OccupyField

\* C1: once the game has ended (is_ongoing false), no occupy call changes
\* the result or sets is_ongoing back.
C1_ResultMonotonic ==
    [][(~is_ongoing /\ AnyOccupy) => UNCHANGED <<result, is_ongoing>>]_vars

\* C2: in every reachable state exactly one of ongoing, x_win, o_win and
\* draw holds, and the board never holds a completed line for both players.
C2_ExactlyOneResult ==
    /\ Cardinality({s \in {"ongoing", "x_win", "o_win", "draw"} :
                        IF s = "ongoing" THEN is_ongoing ELSE result = s}) = 1
    /\ ~(HasLine(fields_taken["player_x"]) /\ HasLine(fields_taken["player_o"]))

\* C3: a reset, from any reachable state, yields the state of a freshly
\* created game: no cell claimed, X to move, ongoing, no result.
C3_ResetRestoresInitial ==
    [][reset => Init']_vars

\* C4: every successful occupy hands the turn to the other player, every
\* failed occupy leaves the turn where it was.
C4_TurnAlternates ==
    [][\/ IF err' = "none" THEN player_turn' = Other(player_turn)
                            ELSE player_turn' = player_turn
       \/ ~AnyOccupy]_vars

\* After X's first move O tried the cell X holds: one flip, then a failure.
C4_Witness ==
    /\ player_turn = 0 - 1
    /\ BagCardinality(fields_taken["player_x"]) = 1
    /\ BagCardinality(fields_taken["player_o"]) = 0
    /\ err = "occupied"

\* C5 as stated: an occupy call on a claimed cell fails with the
\* cell-occupied error whoever's turn it is, and changes nothing.
C5_OccupiedAlwaysCellOccupied ==
    [][\A player \in Players, field \in Fields :
          (is_occupied(field) /\ occupy_field(player, player_nr(player), field))
              => (err' = "occupied" /\ UNCHANGED GameState)]_vars

\* C5 amended: an occupy call on a claimed cell always fails and changes
\* nothing; the error is the cell-occupied error when the caller is the
\* player to move and the wrong-turn error otherwise, and take_field
\* reports a cell outside 0..8 before either.
C5_OccupiedAlwaysFails ==
    \A player \in Players, field \in Fields :
        (Holds(fields_taken["player_x"], field)
            \/ Holds(fields_taken["player_o"], field)) =>
            LET e1 == IF player_nr(player) = player_turn
                         THEN "occupied" ELSE "turn"
                e2 == IF field \notin 0..8 THEN "range" ELSE e1
            IN  /\ ~ENABLED (/\ occupy_field(player, player_nr(player), field)
                             /\ ~(err' = e1 /\ UNCHANGED GameState))
                /\ ~ENABLED (/\ take_field(player, field)
                             /\ ~(err' = e2 /\ UNCHANGED GameState))

\* Every value a caller can pass is claimed, so the wrong-turn failure was
\* raised for a claimed cell.
C5_Witness ==
    /\ \A f \in Fields :
          Holds(fields_taken["player_x"], f) \/ Holds(fields_taken["player_o"], f)
    /\ err = "turn"

\* C6: an occupy call with a cell outside 0..8 fails with the out-of-range
\* error and changes nothing, through take_field and through occupy_field.
C6_OutOfRangeFails ==
    [][\A entry \in Entries, player \in Players, field \in Fields \ (0..8) :
          Call(entry, player, field)
              => (err' = "range" /\ UNCHANGED GameState)]_vars

\* C7: in every reachable state, an occupy_field call by the player who is
\* not to move, made directly or reached through take_field, fails with
\* the wrong-turn error and changes nothing.
C7_WrongTurnFails ==
    \A player \in Players, field \in Fields :
        player_nr(player) # player_turn =>
            /\ ~ENABLED (/\ occupy_field(player, player_nr(player), field)
                         /\ ~(err' = "turn" /\ UNCHANGED GameState))
            /\ field \in 0..8 =>
                 ~ENABLED (/\ take_field(player, field)
                           /\ ~(err' = "turn" /\ UNCHANGED GameState))

\* X has moved once and then tried to move again.
C7_Witness ==
    /\ player_turn = 0 - 1
    /\ BagCardinality(fields_taken["player_x"]) = 1
    /\ BagCardinality(fields_taken["player_o"]) = 0
    /\ err = "turn"

\* C8: a successful occupy after which the acting player holds a whole
\* win line makes the result that player's win and ends the game in the
\* same step, also when the board is then full; and X holding 0,1,2
\* against O holding 3,4 is x_win.
C8_WinDetected ==
    /\ [][\A player \in Players :
             (err' = "none"
                 /\ fields_taken'[player] # fields_taken[player]
                 /\ HasLine(fields_taken'[player]))
                 => \/ result' = WinOf(player) /\ ~is_ongoing'
                    \/ ~AnyOccupy]_vars
    /\ []((ClaimedBy(fields_taken, "player_x") = {0, 1, 2}
            /\ ClaimedBy(fields_taken, "player_o") = {3, 4})
            => (result = "x_win" /\ ~is_ongoing))

\* A full board on which X holds the diagonal 0,4,8 and O holds no line.
C8_Witness ==
    /\ ClaimedBy(fields_taken, "player_x") = {0, 2, 4, 7, 8}
    /\ ClaimedBy(fields_taken, "player_o") = {1, 3, 5, 6}
    /\ result = "x_win"
    /\ ~is_ongoing

\* C9: after a successful occupy that completes no line for the acting
\* player, the result is draw exactly when all 9 cells are claimed, and
\* the game is ongoing otherwise.
C9_DrawIffFull ==
    [][\A player \in Players :
          (AnyOccupy /\ err' = "none"
              /\ fields_taken'[player] # fields_taken[player]
              /\ ~HasLine(fields_taken'[player]))
              => IF AllCellsClaimed(fields_taken')
                    THEN result' = "draw" /\ ~is_ongoing'
                    ELSE is_ongoing' /\ result' # "draw"]_vars

\* C10: the two claimed-cell lists are disjoint, hold only indices 0..8,
\* hold no index twice, hold at most 9 cells together, and no occupy call
\* takes a claimed cell from its owner.
C10_BoardInvariant ==
    /\ \A c \in Fields :
          ~(Holds(fields_taken["player_x"], c) /\ Holds(fields_taken["player_o"], c))
    /\ \A p \in Players :
          /\ BagToSet(fields_taken[p]) \subseteq 0..8
          /\ \A c \in BagToSet(fields_taken[p]) : CopiesIn(c, fields_taken[p]) = 1
    /\ BagCardinality(fields_taken["player_x"])
          + BagCardinality(fields_taken["player_o"]) <= 9
    /\ \A entry \in Entries, player \in Players, field \in Fields :
          ~ENABLED (/\ Call(entry, player, field)
                    /\ \E p \in Players :
                          ~(ClaimedBy(fields_taken, p)
                              \subseteq ClaimedBy(fields_taken', p)))

\* C11: once the game has ended, no occupy call claims a further cell or
\* flips the turn.
C11_FrozenAfterEnd ==
    [][(~is_ongoing /\ AnyOccupy) => UNCHANGED <<fields_taken, player_turn>>]_vars

\* C12: nine successful moves after the initial or reset state end the
\* game: a state with nine claimed entries, or with all 9 cells claimed, is
\* not ongoing and carries a terminal result.
C12_TerminatesWithinNine ==
    (BagCardinality(fields_taken["player_x"])
        + BagCardinality(fields_taken["player_o"]) >= 9
     \/ AllCellsClaimed(fields_taken))
        => (~is_ongoing /\ result \in {"x_win", "o_win", "draw"})

\* The drawn board X 0,1,5,6,8 against O 2,3,4,7, reached by the ninth move.
C12_Witness ==
    /\ ClaimedBy(fields_taken, "player_x") = {0, 1, 5, 6, 8}
    /\ ClaimedBy(fields_taken, "player_o") = {2, 3, 4, 7}
    /\ result = "draw"
    /\ ~is_ongoing

\* The seat that pov denotes.
SeatOf(pov) == IF pov = 1 THEN "player_x" ELSE "player_o"

Unclaimed(ft, c) == ~Holds(ft["player_x"], c) /\ ~Holds(ft["player_o"], c)

\* The perspective string the specification describes, cell by cell.
PerspectiveOf(ft, pov) ==
    [i \in 1..9 |->
        IF Unclaimed(ft, i - 1) THEN "-"
        ELSE IF Holds(ft[SeatOf(pov)], i - 1) THEN "x"
        ELSE "o"]

BoardEmpty(ft) == \A p \in Players : ft[p] = EmptyBag

\* The player to move in a game that has not ended.
AskedToMove(player) == is_ongoing /\ player_turn = player_nr(player)

\* C13: on every reachable board the perspective strings of X and of O
\* differ, unless the board is empty, where both are '---------'.
C13_PerspectivesDiffer ==
    LET a == get_qtable_entry(fields_taken, 1)
        b == get_qtable_entry(fields_taken, 0 - 1)
    IN  IF BoardEmpty(fields_taken)
          THEN a = b /\ a.exc = "none" /\ a.val = [i \in 1..9 |-> "-"]
          ELSE a.exc = "none" /\ b.exc = "none" /\ a.val # b.val

\* C14: on every reachable board and for either pov the perspective string
\* has 9 characters, '-' for an unclaimed cell, 'x' for a cell of pov, 'o'
\* for a cell of the opponent, and the tensor encoder's length check passes.
C14_PerspectiveString ==
    \A pov \in {1, 0 - 1} :
        LET e == get_qtable_entry(fields_taken, pov)
        IN  /\ e.exc = "none"
            /\ Len(e.val) = 9
            /\ e.val = PerspectiveOf(fields_taken, pov)
            /\ get_nn_input(fields_taken, pov).exc = "none"

\* C15: the vector encoding of every reachable board has length 9, 0 for an
\* unclaimed cell, +1 for a cell of X and -1 for a cell of O, and computing
\* it changes neither board, turn nor result.
C15_VectorEncoding ==
    /\ LET m == get_game_matrix(fields_taken)
       IN  /\ m.exc = "none"
           /\ Len(m.val) = 9
           /\ \A c \in 0..8 :
                 m.val[c + 1] =
                    IF Holds(fields_taken["player_x"], c) THEN 1
                    ELSE IF Holds(fields_taken["player_o"], c) THEN 0 - 1
                    ELSE 0
    /\ ~ENABLED (GetGameMatrix /\ ~UNCHANGED GameState)

\* C16: whenever a random, table-driven or model-driven player is asked to
\* move (the game is ongoing and it is that player's turn), its choice
\* returns and the cell it passes to occupy_field is free, so that the
\* call succeeds.
C16_PlayersSubmitFreeCells ==
    \A player \in Players :
        AskedToMove(player) =>
            /\ ENABLED random_take_field(player)
            /\ ~ENABLED (random_take_field(player) /\ err' # "none")
            /\ \A explore \in BOOLEAN :
                  /\ ENABLED q_take_field(player, explore)
                  /\ ~ENABLED (q_take_field(player, explore) /\ err' # "none")
                  /\ ENABLED nn_take_field(player, explore)
                  /\ ~ENABLED (nn_take_field(player, explore) /\ err' # "none")

Actions(entry) == {entry[i][1] : i \in 1..Len(entry)}

FreeCells(ft) == {c \in 0..8 : Unclaimed(ft, c)}

\* An entry lists exactly the cells of free, once each.
EntryOver(entry, free) ==
    /\ Actions(entry) = free
    /\ Len(entry) = Cardinality(free)

\* A call by player with a key absent from the table has added an entry for
\* that key over the free cells, every value 0, and touched no other entry.
Inserted(player) ==
    \A key \in {PerspectiveOf(fields_taken, player_nr(player))} :
        \/ key \in DOMAIN qtable
        \/ /\ DOMAIN qtable' = DOMAIN qtable \cup {key}
           /\ EntryOver(qtable'[key], FreeCells(fields_taken))
           /\ \A i \in 1..Len(qtable'[key]) : qtable'[key][i][2] = 0
           /\ \A k \in DOMAIN qtable : qtable'[k] = qtable[k]

\* The cell player has just claimed has the largest value of its entry.
GreedyChoice(player) ==
    \A key \in {PerspectiveOf(fields_taken, player_nr(player))} :
        \/ err' # "none"
        \/ /\ key \in DOMAIN qtable'
           /\ \A i \in 1..Len(qtable'[key]) :
                 \/ Holds(fields_taken[player], qtable'[key][i][1])
                 \/ ~Holds(fields_taken'[player], qtable'[key][i][1])
                 \/ \A j \in 1..Len(qtable'[key]) :
                       qtable'[key][j][2] <= qtable'[key][i][2]

\* C17: a table-driven player that meets a key absent from its table
\* inserts an entry listing exactly the free cells, each with value 0; every
\* entry of a table filled by such players lists exactly the '-' positions
\* of its key; and with exploration off the cell chosen has the largest
\* value stored in its entry.
C17_TableEntries ==
    /\ [](\A key \in DOMAIN qtable :
             EntryOver(qtable[key], {c \in 0..8 : key[c + 1] = "-"}))
    /\ [][\A player \in Players :
             /\ \/ Inserted(player)
                \/ ~\E explore \in BOOLEAN : q_take_field(player, explore)
             /\ \/ GreedyChoice(player)
                \/ ~q_take_field(player, FALSE)]_vars

\* X has claimed the cell whose value in the entry of the empty board was
\* raised, and a second key has been inserted since.
C17_Witness ==
    /\ \E key \in DOMAIN qtable :
          /\ \A i \in 1..9 : key[i] = "-"
          /\ \E i \in 1..Len(qtable[key]) :
                /\ qtable[key][i][2] = 1
                /\ Holds(fields_taken["player_x"], qtable[key][i][1])
    /\ Cardinality(DOMAIN qtable) >= 2
    /\ err = "none"

\* C18: every successful occupy_field call gives the newly claimed cell to
\* the player whose turn it was before the call, and to nobody else.
C18_CellCreditedToMover ==
    [][\/ err' # "none"
       \/ /\ fields_taken'[SeatOf(Other(player_turn))]
               = fields_taken[SeatOf(Other(player_turn))]
          /\ \E field \in Fields :
                fields_taken'[SeatOf(player_turn)]
                   = fields_taken[SeatOf(player_turn)] (+) SetToBag({field})
       \/ ~(OccupyFieldAny \/ TakeField)]_vars

\* C19: X holds as many cells as O or one more, and it is X's turn exactly
\* when the two hold equally many.
C19_MoveCount ==
    LET nx == BagCardinality(fields_taken["player_x"])
        no == BagCardinality(fields_taken["player_o"])
    IN  /\ nx - no \in {0, 1}
        /\ (player_turn = 1) <=> (nx = no)

TypeOK ==
    /\ player_turn \in {X, O}
    /\ is_ongoing \in BOOLEAN
    /\ result \in {"None", "x_win", "o_win", "draw", "error"}
    /\ err \in {"none", "range", "turn", "occupied", "IndexError", "ValueError"}
    /\ \A p \in Players : IsABag(fields_taken[p])
====
